---- MODULE Spec2Model ----
(***************************************************************************)
(* Model of softwarecollections/scls/forms.py (CreateForm, UpdateForm,     *)
(* CollaboratorsForm) and of migration 0002_add_field_repo_slug.           *)
(*                                                                         *)
(* Every form method is one atomic action.  A method that calls several    *)
(* side-effecting helpers is computed as the composition of its steps over *)
(* a "world" record; a step that raises stops the composition, and the     *)
(* world reached so far becomes the next state (nothing is rolled back,    *)
(* the code has no try/finally around these calls).                        *)
(***************************************************************************)
EXTENDS Naturals, Sequences, FiniteSets

----------------------------------------------------------------------------
(* Bounds and data *)

\* at most this many rows in the scls_softwarecollection table while
\* collections are only created
MaxScls == 2

\* at most this many rows in the table while the environment may fail
MaxFaulty == 1

\* at most this many rows in the table while collections are also edited
MaxEdited == 1

\* at most this many rows in the scls_repo table when the migration runs
MaxRows == 2

\* the rows of auth_user; a user is identified by its (unique) username
Users == {"alice", "bob"}

\* values of the SlugField 'name' a form may submit
Names == {"rh", "py"}

\* values submitted for the CharField 'copr_username' (required, so non-empty)
CoprUsernames == {"alice", "bob"}

\* values submitted for the CharField 'copr_name'
CoprNames == {"ruby193"}

\* request.REQUEST restricted to the one key the forms read: the key is
\* absent, or present with a possibly empty value
Requests == {<<>>} \cup { [k \in {"copr_username"} |-> v] : v \in {"", "bob"} }

\* what CoprProxy().coprnames(username) may answer: a list of names, or an
\* exception (ok = FALSE)
ProxyAnswers ==
    { [ok |-> TRUE, names |-> <<"py", "rh">>],
      [ok |-> TRUE, names |-> <<>>],
      [ok |-> FALSE, names |-> <<>>] }

\* the value of the answer while the proxy is not asked
NotAsked == [ok |-> TRUE, names |-> <<>>]

\* values of the TagField 'tags' a form may submit
TagInputs == {"", "web"}

\* values of the CharField 'add' a form may submit
AddInputs == {"", "bob", "mallory"}

VARIABLES
    scls,      \* table scls_softwarecollection, row i has id i; the m2m
               \* collaborators, the tags and the repos of a row are kept in it
    dirs,      \* directories that exist on disk
    form,      \* the form object the current request has constructed
    outcome,   \* how the last method call ended, and what it returned
    log,       \* the external calls the last method call made, in order
    schema,    \* database schema: table -> column -> column definition
    rows,      \* rows of table scls_repo: column -> value
    schema0,   \* the schema before migration 0002 was first applied
    rows0,     \* the rows before migration 0002 was first applied
    lastMig    \* the last migration direction applied

formVars == <<scls, dirs, form, outcome, log>>
migVars == <<schema, rows, schema0, rows0, lastMig>>
vars == <<scls, dirs, form, outcome, log, schema, rows, schema0, rows0, lastMig>>

NoForm == [kind |-> "none"]
NoOutcome == [op |-> "none", status |-> "none"]

----------------------------------------------------------------------------
(* Helpers of the framework and of the model layer *)

Max(S) == CHOOSE x \in S : \A y \in S : y <= x
Min(S) == CHOOSE x \in S : \A y \in S : x <= y

\* django.forms.forms.pretty_name on the names of Names: underscores to
\* spaces, first letter upper-cased
pretty_name(name) ==
    CASE name = "rh" -> "Rh"
      [] name = "py" -> "Py"
      [] OTHER -> name

\* '{}/{}'.format(username, name)
SlugOf(username, name) == username \o "/" \o name

\* SoftwareCollection.get_repos_root: the directory of a collection, one per slug
get_repos_root(obj) == "repos/" \o obj.slug

\* the repos the external Copr service lists for a copr project
CoprRepos(copr_username, copr_name) ==
    CASE copr_username = "alice" -> {"epel-6"}
      [] copr_username = "bob" -> {"fedora-20"}
      [] OTHER -> {}

\* the tags derived from a collection's repos
AutoTags(repos) ==
    { IF r = "epel-6" THEN "el6" ELSE "f20" : r \in repos }

\* tagging's parse of a tag input string into tag names
ParseTagInput(s) ==
    CASE s = "web" -> {"web"}
      [] OTHER -> {}

\* ids of the collections a user maintains: filter(maintainer=user)
MaintainedBy(user) == { i \in 1..Len(scls) : scls[i].maintainer = user }

\* faulty variant: order_by('id'), the oldest collection instead of the newest
MostRecentCoprUsername_oldest(user) == scls[Min(MaintainedBy(user))].copr_username

\* filter(maintainer=user).order_by('-id')[0].copr_username
MostRecentCoprUsername(user) == scls[Max(MaintainedBy(user))].copr_username

\* the pairs (name, name), in order
Choices(names) == [i \in 1..Len(names) |-> <<names[i], names[i]>>]


\* collaborators.all() as a list: the rows in a fixed database order
UserOrder == <<"alice", "bob">>
UserList(S) == SelectSeq(UserOrder, LAMBDA u : u \in S)

\* User.get_full_name()
get_full_name(u) ==
    CASE u = "alice" -> "Alice A"
      [] u = "bob" -> "Bob B"
      [] OTHER -> ""

\* the elements of a list
Range(s) == { s[i] : i \in 1..Len(s) }

----------------------------------------------------------------------------
(* CreateForm.__init__ *)

\* lines 37-45: the copr_username the constructor settles on; lookupFails
\* is any exception raised inside the try block besides the IndexError of an
\* empty result
CreateCoprUsername(user, REQUEST, lookupFails) ==
    IF "copr_username" \in DOMAIN REQUEST
    THEN REQUEST["copr_username"]
    ELSE IF lookupFails \/ MaintainedBy(user) = {}
         THEN user
         ELSE MostRecentCoprUsername(user)

\* lines 48-51: the proxy is asked only for a non-empty username
CreateCallsProxy(copr_username) == copr_username # ""

\* CreateForm.__init__(request, **kwargs); proxy is the answer of the
\* external Copr service
CreateForm_init(user, REQUEST, lookupFails, proxy) ==
    LET given == "copr_username" \in DOMAIN REQUEST
        copr_username == CreateCoprUsername(user, REQUEST, lookupFails)
        called == CreateCallsProxy(copr_username)
        queried == IF given THEN <<>>
                   ELSE IF lookupFails THEN <<"objects.filter:error">>
                   ELSE <<"objects.filter">>
    IN  /\ (given => ~lookupFails)
        /\ (~called => proxy = NotAsked)
        /\ log' = queried \o (IF called THEN <<"coprnames">> ELSE <<>>)
        /\ outcome' = [op |-> "CreateForm.__init__",
                       status |-> IF proxy.ok THEN "returned" ELSE "raised",
                       step |-> IF proxy.ok THEN "none" ELSE "coprnames",
                       asked |-> IF called THEN <<copr_username>> ELSE <<>>,
                       answer |-> proxy]
        /\ form' = IF ~proxy.ok THEN NoForm
                   ELSE [kind |-> "create",
                         user |-> user,
                         REQUEST |-> REQUEST,
                         initial |-> [copr_username |-> copr_username,
                                      maintainer |-> user],
                         choices |-> Choices(proxy.names)]
        /\ UNCHANGED <<scls, dirs>>
        /\ UNCHANGED migVars

----------------------------------------------------------------------------
(* UpdateForm.__init__ *)

\* lines 91-94
UpdateCoprUsername(REQUEST, instance) ==
    IF "copr_username" \in DOMAIN REQUEST
    THEN REQUEST["copr_username"]
    ELSE instance.copr_username

\* faulty variant: the proxy is skipped for an empty username, as in CreateForm
UpdateCallsProxy_skipsEmpty(copr_username) == copr_username # ""

\* line 95: the proxy is asked whatever the username is
UpdateCallsProxy(copr_username) == TRUE

\* UpdateForm.__init__(request, instance=scls[id])
UpdateForm_init(REQUEST, id, proxy) ==
    LET copr_username == UpdateCoprUsername(REQUEST, scls[id])
        called == UpdateCallsProxy(copr_username)
    IN  /\ id \in 1..Len(scls)
        /\ (~called => proxy = NotAsked)
        /\ log' = IF called THEN <<"coprnames">> ELSE <<>>
        /\ outcome' = [op |-> "UpdateForm.__init__",
                       status |-> IF proxy.ok THEN "returned" ELSE "raised",
                       step |-> IF proxy.ok THEN "none" ELSE "coprnames",
                       asked |-> IF called THEN <<copr_username>> ELSE <<>>,
                       answer |-> proxy]
        /\ form' = IF ~proxy.ok THEN NoForm
                   ELSE [kind |-> "update",
                         REQUEST |-> REQUEST,
                         instance |-> id,
                         \* tags_edit_string(): the tag names of the row
                         initial |-> [tags |-> scls[id].tags],
                         choices |-> Choices(proxy.names)]
        /\ UNCHANGED <<scls, dirs>>
        /\ UNCHANGED migVars

----------------------------------------------------------------------------
(* CollaboratorsForm.__init__ and clean *)

\* lines 127-135: one choice per collaborator other than the maintainer
CollaboratorChoices(instance) ==
    LET shown == UserList(instance.collaborators \ {instance.maintainer})
    IN  [i \in 1..Len(shown) |->
            <<shown[i], get_full_name(shown[i]) \o " (" \o shown[i] \o ")">>]

\* CollaboratorsForm.__init__(instance=scls[id])
CollaboratorsForm_init(id) ==
    /\ id \in 1..Len(scls)
    /\ form' = [kind |-> "collaborators",
                instance |-> id,
                choices |-> CollaboratorChoices(scls[id]),
                is_cleaned |-> FALSE,
                cleaned_data |-> [collaborators |-> <<>>],
                errors |-> <<>>]
    /\ outcome' = [op |-> "CollaboratorsForm.__init__", status |-> "returned",
                   step |-> "none"]
    /\ log' = <<>>
    /\ UNCHANGED <<scls, dirs>>
    /\ UNCHANGED migVars

\* lines 141-147: the users the lookup of 'add' appends; lookupFails is any
\* exception of the lookup besides DoesNotExist
AddedUsers(add, lookupFails) ==
    IF add # "" /\ add \in Users /\ ~lookupFails THEN <<add>> ELSE <<>>

\* lines 141-147: the errors the bare except records
AddErrors(add, lookupFails) ==
    IF add # "" /\ (add \notin Users \/ lookupFails)
    THEN [k \in {"add"} |-> <<"Unknown user">>]
    ELSE <<>>

\* faulty variant: the maintainer is not appended
CleanedCollaborators_noMaintainer(selected, add, lookupFails, maintainer) ==
    UserList(selected) \o AddedUsers(add, lookupFails)

\* lines 139-148: the cleaned collaborators list
CleanedCollaborators(selected, add, lookupFails, maintainer) ==
    UserList(selected) \o AddedUsers(add, lookupFails) \o <<maintainer>>

\* CollaboratorsForm.clean(): selected is the value the framework cleaned
\* for the field 'collaborators' (any users), add that of the field 'add'
CollaboratorsForm_clean(selected, add, lookupFails) ==
    /\ form.kind = "collaborators"
    /\ ~form.is_cleaned
    /\ (add = "" => ~lookupFails)
    /\ form' = [form EXCEPT
                  !.is_cleaned = TRUE,
                  !.cleaned_data =
                      [collaborators |->
                          CleanedCollaborators(selected, add, lookupFails,
                                               scls[form.instance].maintainer)],
                  !.errors = AddErrors(add, lookupFails)]
    /\ outcome' = [op |-> "CollaboratorsForm.clean", status |-> "returned",
                   step |-> "none", add |-> add, selected |-> selected]
    /\ log' = IF add = "" THEN <<>>
              ELSE IF lookupFails THEN <<"objects.get:error">>
              ELSE <<"objects.get">>
    /\ UNCHANGED <<scls, dirs>>
    /\ UNCHANGED migVars

----------------------------------------------------------------------------
(* The side-effecting calls of the save methods, as steps over a world     *)
(* w = [scls, dirs, log, obj, fault, raised]: obj is the in-memory model   *)
(* instance (id 0 while unsaved), fault the call the environment makes     *)
(* fail (I/O, database or proxy error; "none" for no failure), raised the  *)
(* call that raised ("none" while running).                                *)

\* one call: skipped once an earlier call has raised; raises on an
\* environment failure or on its own failure condition; otherwise takes
\* effect and is logged
Call(w, name, fails, effect) ==
    IF w.raised # "none" THEN w
    ELSE IF w.fault = name \/ fails THEN [w EXCEPT !.raised = name]
    ELSE [effect EXCEPT !.log = Append(w.log, name)]

\* obj.sync_copr_texts(): fills the in-memory text fields from Copr
sync_copr_texts(w) == Call(w, "sync_copr_texts", FALSE, w)

\* os.makedirs(path): raises when the directory exists
makedirs(w, path) ==
    Call(w, "makedirs", path \in w.dirs, [w EXCEPT !.dirs = w.dirs \cup {path}])

\* the row obj.save() inserts
NewRow(obj) ==
    [maintainer |-> obj.maintainer, name |-> obj.name, slug |-> obj.slug,
     title |-> obj.title, copr_username |-> obj.copr_username,
     copr_name |-> obj.copr_name, collaborators |-> {}, tags |-> {}, repos |-> {}]

\* unique_together (maintainer, name) over the rows other than obj's own
UniqueViolation(table, obj) ==
    \E i \in 1..Len(table) :
        /\ i # obj.id
        /\ table[i].maintainer = obj.maintainer
        /\ table[i].name = obj.name

\* obj.save(): INSERT for an unsaved instance (the row gets the next id),
\* UPDATE of the form's columns otherwise
obj_save(w) ==
    Call(w, "save", UniqueViolation(w.scls, w.obj),
         IF w.obj.id = 0
         THEN [w EXCEPT !.scls = Append(w.scls, NewRow(w.obj)),
                        !.obj.id = Len(w.scls) + 1]
         ELSE [w EXCEPT !.scls[w.obj.id].copr_username = w.obj.copr_username,
                        !.scls[w.obj.id].copr_name = w.obj.copr_name])

\* obj.sync_copr_repos(): the repos of the row become those Copr lists for
\* the instance's copr project; needs a saved instance
sync_copr_repos(w) ==
    Call(w, "sync_copr_repos", w.obj.id = 0,
         [w EXCEPT !.scls[w.obj.id].repos =
                       CoprRepos(w.obj.copr_username, w.obj.copr_name)])

\* obj.add_auto_tags(): adds the tags derived from the row's repos
add_auto_tags(w) ==
    Call(w, "add_auto_tags", w.obj.id = 0,
         [w EXCEPT !.scls[w.obj.id].tags =
                       w.scls[w.obj.id].tags \cup AutoTags(w.scls[w.obj.id].repos)])

\* obj.collaborators.add(user)
collaborators_add(w, user) ==
    Call(w, "collaborators.add", w.obj.id = 0,
         [w EXCEPT !.scls[w.obj.id].collaborators =
                       w.scls[w.obj.id].collaborators \cup {user}])

\* save_m2m(): the row's collaborators become the cleaned ones
collaborators_set(w, users) ==
    Call(w, "collaborators.set", w.obj.id = 0,
         [w EXCEPT !.scls[w.obj.id].collaborators = users])

\* obj.tags = value: replaces the tags of the row
set_tags(w, value) ==
    Call(w, "set_tags", w.obj.id = 0,
         [w EXCEPT !.scls[w.obj.id].tags = ParseTagInput(value)])

World(obj, fault) ==
    [scls |-> scls, dirs |-> dirs, log |-> <<>>, obj |-> obj,
     fault |-> fault, raised |-> "none"]

\* what a save method hands back: the instance when it returns, nothing
\* but the exception when it raises
SaveOutcome(op, w, commit, submitted) ==
    IF w.raised = "none"
    THEN [op |-> op, status |-> "returned", step |-> "none",
          commit |-> commit, submitted |-> submitted, obj |-> w.obj]
    ELSE [op |-> op, status |-> "raised", step |-> w.raised]

----------------------------------------------------------------------------
(* CreateForm.save *)

CreateData ==
    [name : Names, maintainer : Users, copr_username : CoprUsernames,
     copr_name : CoprNames]

CreateFaults == {"none", "sync_copr_texts", "makedirs", "save",
                 "sync_copr_repos", "add_auto_tags", "collaborators.add"}

\* the framework's validation of the bound data: validate_unique checks
\* unique_together (maintainer, name) with the submitted maintainer
CreateIsValid(data) ==
    ~ \E i \in 1..Len(scls) :
          scls[i].maintainer = data.maintainer /\ scls[i].name = data.name

\* faulty variant: the submitted maintainer is kept
CreateObj_submittedMaintainer(user, data) ==
    [id |-> 0,
     maintainer |-> data.maintainer,
     name |-> data.name,
     slug |-> SlugOf(data.maintainer, data.name),
     title |-> pretty_name(data.name),
     copr_username |-> data.copr_username,
     copr_name |-> data.copr_name]

\* lines 57-60: the unsaved instance built from the cleaned data
CreateObj(user, data) ==
    [id |-> 0,
     maintainer |-> user,
     name |-> data.name,
     slug |-> SlugOf(user, data.name),
     title |-> pretty_name(data.name),
     copr_username |-> data.copr_username,
     copr_name |-> data.copr_name]

\* faulty variant: the record is saved before its directory is created
CreateSaveRun_saveFirst(w, commit) ==
    collaborators_add(
        add_auto_tags(
            sync_copr_repos(
                makedirs(
                    obj_save(sync_copr_texts(w)),
                    get_repos_root(w.obj)))),
        w.obj.maintainer)

\* faulty variant: a failed save removes the directory again
CreateSaveRun_rollback(w, commit) ==
    LET r == collaborators_add(
                 add_auto_tags(
                     sync_copr_repos(
                         obj_save(
                             makedirs(
                                 sync_copr_texts(w),
                                 get_repos_root(w.obj))))),
                 w.obj.maintainer)
    IN  IF r.raised = "save"
        THEN [r EXCEPT !.dirs = r.dirs \ {get_repos_root(w.obj)}]
        ELSE r

\* faulty variant: commit=False returns the unsaved instance without side effects
CreateSaveRun_honoursCommit(w, commit) ==
    IF commit
    THEN collaborators_add(
             add_auto_tags(
                 sync_copr_repos(
                     obj_save(
                         makedirs(
                             sync_copr_texts(w),
                             get_repos_root(w.obj))))),
             w.obj.maintainer)
    ELSE w

\* lines 61-66; commit is not read
CreateSaveRun(w, commit) ==
    collaborators_add(
        add_auto_tags(
            sync_copr_repos(
                obj_save(
                    makedirs(
                        sync_copr_texts(w),
                        get_repos_root(w.obj))))),
        w.obj.maintainer)

\* CreateForm.save(commit) of a form whose bound data validated; the
\* request ends with it
CreateForm_save(data, commit, fault) ==
    LET w == CreateSaveRun(World(CreateObj(form.user, data), fault), commit)
    IN  /\ form.kind = "create"
        /\ CreateIsValid(data)
        /\ (fault # "none" => w.raised = fault)
        /\ scls' = w.scls
        /\ dirs' = w.dirs
        /\ log' = w.log
        /\ outcome' = SaveOutcome("CreateForm.save", w, commit, data)
        /\ form' = NoForm
        /\ UNCHANGED migVars

----------------------------------------------------------------------------
(* UpdateForm.save *)

UpdateData == [copr_username : CoprUsernames, copr_name : CoprNames, tags : TagInputs]

\* super().save(commit) of a model form without m2m data: the row is
\* written only when commit is true
modelform_save(w, commit) == IF commit THEN obj_save(w) ELSE w

\* construct_instance: the row's instance with the cleaned data assigned
UpdateObj(id, data) ==
    [id |-> id,
     maintainer |-> scls[id].maintainer,
     name |-> scls[id].name,
     slug |-> scls[id].slug,
     title |-> scls[id].title,
     copr_username |-> data.copr_username,
     copr_name |-> data.copr_name]

\* faulty variant: the submitted tags are assigned last
UpdateSaveRun_tagsLast(w, commit, tags) ==
    set_tags(add_auto_tags(sync_copr_repos(modelform_save(w, commit))), tags)

\* lines 102-105
UpdateSaveRun(w, commit, tags) ==
    add_auto_tags(sync_copr_repos(set_tags(modelform_save(w, commit), tags)))

\* UpdateForm.save(commit), the environment not failing; the request ends
\* with it
UpdateForm_save(data, commit) ==
    LET w == UpdateSaveRun(World(UpdateObj(form.instance, data), "none"),
                           commit, data.tags)
    IN  /\ form.kind = "update"
        /\ scls' = w.scls
        /\ dirs' = w.dirs
        /\ log' = w.log
        /\ outcome' = SaveOutcome("UpdateForm.save", w, commit, data)
        /\ form' = NoForm
        /\ UNCHANGED migVars

----------------------------------------------------------------------------
(* CollaboratorsForm.save *)

\* super().save(commit) of a model form with m2m data: with commit the row
\* and then its m2m data are written, without it save_m2m is left to the caller
modelform_save_m2m(w, commit, users) ==
    IF commit THEN collaborators_set(obj_save(w), users) ELSE w

\* the instance of a form that edits none of the tracked columns
InstanceObj(id) ==
    [id |-> id,
     maintainer |-> scls[id].maintainer,
     name |-> scls[id].name,
     slug |-> scls[id].slug,
     title |-> scls[id].title,
     copr_username |-> scls[id].copr_username,
     copr_name |-> scls[id].copr_name]

\* lines 152-153
CollaboratorsSaveRun(w, commit, users) ==
    add_auto_tags(modelform_save_m2m(w, commit, users))

\* CollaboratorsForm.save(commit) after clean, the environment not failing;
\* the framework's save raises ValueError when the form has errors; the
\* request ends with it
CollaboratorsForm_save(commit) ==
    LET users == Range(form.cleaned_data.collaborators)
        w0 == World(InstanceObj(form.instance), "none")
        w == IF form.errors # <<>>
             THEN [w0 EXCEPT !.raised = "modelform_save"]
             ELSE CollaboratorsSaveRun(w0, commit, users)
    IN  /\ form.kind = "collaborators"
        /\ form.is_cleaned
        /\ scls' = w.scls
        /\ dirs' = w.dirs
        /\ log' = w.log
        /\ outcome' = SaveOutcome("CollaboratorsForm.save", w, commit, users)
        /\ form' = NoForm
        /\ UNCHANGED migVars

----------------------------------------------------------------------------
(* Migration 0002_add_field_repo_slug *)

\* a column as the schema records it
Column(type, max_length, null) ==
    [type |-> type, max_length |-> max_length, null |-> null]

\* the columns of scls_repo the frozen models list, 'slug' aside; 'id' is
\* always there, the schema states the migration starts from differ in the rest
RepoColumns ==
    [c \in {"id", "name", "copr_url", "enabled", "last_sync_date"} |->
        CASE c = "id" -> Column("AutoField", 0, FALSE)
          [] c = "name" -> Column("CharField", 50, FALSE)
          [] c = "copr_url" -> Column("CharField", 200, FALSE)
          [] c = "enabled" -> Column("BooleanField", 0, FALSE)
          [] OTHER -> Column("DateTimeField", 0, TRUE)]

\* the columns of scls_score
ScoreColumns ==
    [c \in {"id", "score"} |->
        IF c = "id" THEN Column("AutoField", 0, FALSE)
        ELSE Column("SmallIntegerField", 0, FALSE)]

Restrict(f, S) == [c \in S |-> f[c]]

\* the schema states lacking scls_repo.slug the migration may start from
InitialSchemas ==
    { [t \in {"scls_repo", "scls_score"} |->
          IF t = "scls_repo" THEN Restrict(RepoColumns, {"id"} \cup S)
          ELSE ScoreColumns] :
      S \in SUBSET {"name", "copr_url", "enabled", "last_sync_date"} }

\* n rows of a table with the given columns
SomeRows(columns, n) ==
    [i \in 1..n |-> [c \in columns |-> IF c = "id" THEN "row" ELSE "x"]]

\* self.gf('django.db.models.fields.SlugField')(max_length=150, default='')
SlugField150 ==
    [column |-> Column("SlugField", 150, FALSE), default |-> ""]

\* db.add_column(table, name, field, keep_default=False): the database
\* rejects a missing table and an existing column; existing rows get the
\* field's default, which the column itself does not keep
add_column(table, name, field) ==
    /\ table \in DOMAIN schema
    /\ name \notin DOMAIN schema[table]
    /\ schema' = [schema EXCEPT ![table] =
                    [c \in DOMAIN schema[table] \cup {name} |->
                        IF c = name THEN field.column ELSE schema[table][c]]]
    /\ rows' = IF table # "scls_repo" THEN rows
               ELSE [i \in 1..Len(rows) |->
                        [c \in DOMAIN rows[i] \cup {name} |->
                            IF c = name THEN field.default ELSE rows[i][c]]]

\* db.delete_column(table, name): the database rejects a missing column
delete_column(table, name) ==
    /\ table \in DOMAIN schema
    /\ name \in DOMAIN schema[table]
    /\ schema' = [schema EXCEPT ![table] =
                    Restrict(schema[table], DOMAIN schema[table] \ {name})]
    /\ rows' = IF table # "scls_repo" THEN rows
               ELSE [i \in 1..Len(rows) |->
                        Restrict(rows[i], DOMAIN rows[i] \ {name})]

\* what Migration.forwards does to the database
ForwardsOp == add_column("scls_repo", "slug", SlugField150)

\* faulty variant: another column is deleted
BackwardsOp_wrongColumn == delete_column("scls_repo", "name")

\* what Migration.backwards does to the database
BackwardsOp == delete_column("scls_repo", "slug")

\* Migration.forwards(orm)
forwards ==
    /\ ForwardsOp
    /\ lastMig' = "forwards"
    /\ UNCHANGED <<schema0, rows0>>
    /\ UNCHANGED formVars

\* Migration.backwards(orm)
backwards ==
    /\ BackwardsOp
    /\ lastMig' = "backwards"
    /\ UNCHANGED <<schema0, rows0>>
    /\ UNCHANGED formVars

----------------------------------------------------------------------------
(* Specifications *)

InitForms ==
    /\ scls = <<>>
    /\ dirs = {}
    /\ form = NoForm
    /\ outcome = NoOutcome
    /\ log = <<>>

Init ==
    /\ InitForms
    /\ schema = <<>>
    /\ rows = <<>>
    /\ schema0 = <<>>
    /\ rows0 = <<>>
    /\ lastMig = "none"

\* creation of collections, any call of which the environment may make fail
Next ==
    \/ \E user \in Users, REQUEST \in Requests, lookupFails \in BOOLEAN,
          proxy \in ProxyAnswers :
            CreateForm_init(user, REQUEST, lookupFails, proxy)
    \/ \E data \in CreateData, commit \in BOOLEAN, fault \in CreateFaults :
            CreateForm_save(data, commit, fault) /\ Len(scls') <= MaxFaulty

Spec == Init /\ [][Next]_vars

\* creation of collections in an environment that does not fail
NextCreate ==
    \/ \E user \in Users, REQUEST \in Requests, lookupFails \in BOOLEAN,
          proxy \in ProxyAnswers :
            CreateForm_init(user, REQUEST, lookupFails, proxy)
    \/ \E data \in CreateData, commit \in BOOLEAN :
            CreateForm_save(data, commit, "none") /\ Len(scls') <= MaxScls

CreateSpec == Init /\ [][NextCreate]_vars

\* creation and editing of collections in an environment that does not fail
NextEdit ==
    \/ \E user \in Users, REQUEST \in Requests, lookupFails \in BOOLEAN,
          proxy \in ProxyAnswers :
            CreateForm_init(user, REQUEST, lookupFails, proxy)
    \/ \E REQUEST \in Requests, id \in 1..Len(scls), proxy \in ProxyAnswers :
            UpdateForm_init(REQUEST, id, proxy)
    \/ \E id \in 1..Len(scls) : CollaboratorsForm_init(id)
    \/ \E selected \in SUBSET Users, add \in AddInputs, lookupFails \in BOOLEAN :
            CollaboratorsForm_clean(selected, add, lookupFails)
    \/ \E data \in CreateData, commit \in BOOLEAN :
            CreateForm_save(data, commit, "none") /\ Len(scls') <= MaxEdited
    \/ \E data \in UpdateData, commit \in BOOLEAN :
            UpdateForm_save(data, commit)
    \/ \E commit \in BOOLEAN :
            CollaboratorsForm_save(commit)

EditSpec == Init /\ [][NextEdit]_vars

\* the migration, from any schema that lacks scls_repo.slug
InitMig ==
    /\ InitForms
    /\ schema \in InitialSchemas
    /\ \E n \in 0..MaxRows : rows = SomeRows(DOMAIN schema["scls_repo"], n)
    /\ schema0 = schema
    /\ rows0 = rows
    /\ lastMig = "none"

NextMig ==
    \/ forwards
    \/ backwards

MigSpec == InitMig /\ [][NextMig]_vars
----------------------------------------------------------------------------
(* Properties *)

\* the calls of CreateForm.save, in the order of the source
CreateSteps ==
    <<"sync_copr_texts", "makedirs", "save", "sync_copr_repos",
      "add_auto_tags", "collaborators.add">>

StepIndex(name) == CHOOSE k \in 1..Len(CreateSteps) : CreateSteps[k] = name

CreateReturned == outcome.op = "CreateForm.save" /\ outcome.status = "returned"

\* C1: the object CreateForm.save returns has the requesting user as its
\* maintainer, whatever the hidden field 'maintainer' submitted, the
\* submitted name, and the slug '<requesting user's username>/<name>'; the
\* row it persisted has the same.
C1_SaveSetsMaintainerAndSlug ==
    [][ (/\ outcome'.op = "CreateForm.save"
         /\ outcome'.status = "returned"
         /\ form.kind = "create")
        => /\ outcome'.obj.maintainer = form.user
           /\ outcome'.obj.name = outcome'.submitted.name
           /\ outcome'.obj.slug = form.user \o "/" \o outcome'.submitted.name
           /\ outcome'.obj.id = Len(scls')
           /\ scls'[Len(scls')].maintainer = form.user
           /\ scls'[Len(scls')].slug = form.user \o "/" \o outcome'.submitted.name
      ]_vars

\* a save returned although another user was submitted as maintainer
C1_Witness ==
    /\ CreateReturned
    /\ outcome.submitted.maintainer # outcome.obj.maintainer

\* C3: a CreateForm.save that returns has made its six calls once each, in
\* the order texts, directory, record, repos, tags, collaborator; in any run
\* the record is saved only after its directory was made, repos, tags and
\* collaborator are touched only after the record was saved, and every
\* persisted record has its directory.
C3_CreateSaveOrder ==
    /\ CreateReturned => log = CreateSteps
    /\ outcome.op = "CreateForm.save" =>
          \A i \in 1..Len(log) :
              /\ log[i] = "save" => \E j \in 1..(i - 1) : log[j] = "makedirs"
              /\ log[i] \in {"sync_copr_repos", "add_auto_tags", "collaborators.add"}
                    => \E j \in 1..(i - 1) : log[j] = "save"
    /\ \A i \in 1..Len(scls) : ("repos/" \o scls[i].slug) \in dirs

\* a save returned although an earlier save had left a directory behind
C3_Witness ==
    /\ CreateReturned
    /\ Len(log) = 6
    /\ Cardinality(dirs) > Len(scls)

\* C4: when a call of CreateForm.save raises, the save raises at that call:
\* exactly the calls before it have run, none after it, and their effects
\* stay: a failure before the record's save persists nothing (a failed
\* makedirs creates no directory either), a failed record save leaves the
\* new directory, a later failure leaves directory and record.
C4_FailureStopsCreateSave ==
    [][ (outcome'.op = "CreateForm.save" /\ outcome'.status = "raised")
        => LET k == StepIndex(outcome'.step)
               n == Len(scls)
           IN  /\ log' = SubSeq(CreateSteps, 1, k - 1)
               /\ (k <= 2 => dirs' = dirs)
               /\ (k >= 3 => \E d \in dirs' \ dirs : dirs' = dirs \cup {d})
               /\ (k <= 3 => scls' = scls)
               /\ (k >= 4 =>
                     /\ Len(scls') = n + 1
                     /\ SubSeq(scls', 1, n) = scls
                     /\ ("repos/" \o scls'[n + 1].slug) \in dirs' \ dirs
                     /\ scls'[n + 1].collaborators = {}
                     /\ (scls'[n + 1].repos # {}) = (k >= 5)
                     /\ (scls'[n + 1].tags # {}) = (k >= 6))
      ]_vars

\* the record save failed and a directory without a record is left
C4_Witness ==
    /\ outcome.op = "CreateForm.save"
    /\ outcome.status = "raised"
    /\ outcome.step = "save"
    /\ log = <<"sync_copr_texts", "makedirs">>
    /\ \E d \in dirs : \A i \in 1..Len(scls) : d # "repos/" \o scls[i].slug

\* C9: the copr_username a CreateForm starts with is the request parameter
\* when present (even empty); else that of the requesting user's collection
\* with the highest id; else (no collection, or the lookup failed) the
\* user's username.  Initial 'maintainer' is the requesting user.
C9_CoprUsernamePrecedence ==
    (outcome.op = "CreateForm.__init__" /\ outcome.status = "returned") =>
        LET user == form.user
            given == "copr_username" \in DOMAIN form.REQUEST
            mine == { i \in 1..Len(scls) : scls[i].maintainer = user }
            failed == "objects.filter:error" \in Range(log)
            chosen == form.initial.copr_username
        IN  /\ form.initial.maintainer = user
            /\ given => chosen = form.REQUEST["copr_username"]
            /\ (~given /\ ~failed /\ mine # {}) =>
                  \E i \in mine : /\ \A j \in mine : j <= i
                                  /\ chosen = scls[i].copr_username
            /\ (~given /\ (failed \/ mine = {})) => chosen = user

\* the user maintains two collections with different copr usernames and
\* the form took that of the newer one
C9_Witness ==
    /\ outcome.op = "CreateForm.__init__"
    /\ outcome.status = "returned"
    /\ "copr_username" \notin DOMAIN form.REQUEST
    /\ "objects.filter" \in Range(log)
    /\ Len(scls) = 2
    /\ scls[1].maintainer = form.user
    /\ scls[2].maintainer = form.user
    /\ scls[1].copr_username # scls[2].copr_username
    /\ form.initial.copr_username # form.user

\* C5: a constructed CreateForm or UpdateForm has as copr_name choices the
\* pairs (name, name), in order, of the names the proxy answered for the
\* form's copr_username; CreateForm does not ask the proxy for an empty
\* username and has no choices then, UpdateForm asks always; when the proxy
\* raises the constructor raises.
C5_CoprNameChoices ==
    outcome.op \in {"CreateForm.__init__", "UpdateForm.__init__"} =>
        /\ ~outcome.answer.ok => (outcome.status = "raised" /\ form = NoForm)
        /\ (outcome.status = "raised" /\ outcome.op = "UpdateForm.__init__")
              => Len(outcome.asked) = 1
        /\ outcome.status = "returned" =>
              LET names == outcome.answer.names
                  create == outcome.op = "CreateForm.__init__"
                  eff == IF create THEN form.initial.copr_username
                         ELSE IF "copr_username" \in DOMAIN form.REQUEST
                              THEN form.REQUEST["copr_username"]
                              ELSE scls[form.instance].copr_username
              IN  /\ Len(form.choices) = Len(names)
                  /\ \A i \in 1..Len(names) : form.choices[i] = <<names[i], names[i]>>
                  /\ (create /\ eff = "") =>
                        /\ outcome.asked = <<>>
                        /\ form.choices = <<>>
                        /\ "coprnames" \notin Range(log)
                  /\ (create /\ eff # "") => outcome.asked = <<eff>>
                  /\ ~create => (outcome.asked = <<eff>> /\ "coprnames" \in Range(log))

\* an UpdateForm was constructed for an empty copr_username and got choices
C5_Witness ==
    /\ outcome.op = "UpdateForm.__init__"
    /\ outcome.status = "returned"
    /\ "copr_username" \in DOMAIN form.REQUEST
    /\ form.REQUEST["copr_username"] = ""
    /\ Len(form.choices) = 2

\* C2: after CollaboratorsForm.clean, a non-empty 'add' that names no user
\* has left exactly the error 'Unknown user' for 'add' and added nobody;
\* an empty 'add' or one naming a user has left no error for 'add'.
C2_UnknownUserOnlyForUnknownUsers ==
    outcome.op = "CollaboratorsForm.clean" =>
        LET add == outcome.add
            m == scls[form.instance].maintainer
        IN  /\ (add # "" /\ add \notin Users) =>
                  /\ DOMAIN form.errors = {"add"}
                  /\ form.errors["add"] = <<"Unknown user">>
                  /\ form.cleaned_data.collaborators
                        = UserList(outcome.selected) \o <<m>>
            /\ (add = "" \/ add \in Users) => "add" \notin DOMAIN form.errors

\* C7: the maintainer of every collection is among its collaborators; a
\* CollaboratorsForm offers no choice for the maintainer, and its cleaned
\* collaborators end with the maintainer, with or without an error for 'add'.
C7_MaintainerIsCollaborator ==
    /\ \A i \in 1..Len(scls) : scls[i].maintainer \in scls[i].collaborators
    /\ form.kind = "collaborators" =>
          LET m == scls[form.instance].maintainer
              cleaned == form.cleaned_data.collaborators
          IN  /\ \A i \in 1..Len(form.choices) : form.choices[i][1] # m
              /\ form.is_cleaned => (Len(cleaned) >= 1 /\ cleaned[Len(cleaned)] = m)

\* a form of a collection with a second collaborator was cleaned with an
\* error for 'add'
C7_Witness ==
    /\ form.kind = "collaborators"
    /\ form.is_cleaned
    /\ DOMAIN form.errors = {"add"}
    /\ Len(form.choices) = 1

\* C8: an UpdateForm.save that returns has assigned the submitted tags, then
\* synced the repos, then added the auto tags: the collection's repos are
\* those of the submitted copr project, and its tags are the submitted ones
\* together with the (non-empty) auto tags of those repos.
C8_AutoTagsSurviveUpdate ==
    (outcome.op = "UpdateForm.save" /\ outcome.status = "returned") =>
        LET row == scls[outcome.obj.id]
            sub == outcome.submitted
            auto == { IF r = "epel-6" THEN "el6" ELSE "f20" : r \in row.repos }
        IN  /\ log = (IF outcome.commit THEN <<"save">> ELSE <<>>)
                        \o <<"set_tags", "sync_copr_repos", "add_auto_tags">>
            /\ row.repos = (IF sub.copr_username = "alice" THEN {"epel-6"}
                            ELSE {"fedora-20"})
            /\ auto # {}
            /\ auto \subseteq row.tags
            /\ row.tags = (IF sub.tags = "web" THEN {"web"} ELSE {}) \cup auto

\* an update with empty 'tags' moved the collection to another copr project
C8_Witness ==
    /\ outcome.op = "UpdateForm.save"
    /\ outcome.status = "returned"
    /\ outcome.submitted.tags = ""
    /\ ~outcome.commit
    /\ scls[outcome.obj.id].copr_username # outcome.submitted.copr_username

\* C10: a CreateForm.save that returns has made the directory, persisted
\* the record and run repo sync, tagging and the collaborator addition,
\* with commit true or false; UpdateForm.save and CollaboratorsForm.save
\* write the record exactly when commit is true.
C10_CreateIgnoresCommit ==
    /\ CreateReturned =>
          /\ log = CreateSteps
          /\ outcome.obj.id \in 1..Len(scls)
          /\ scls[outcome.obj.id].slug = outcome.obj.slug
          /\ ("repos/" \o outcome.obj.slug) \in dirs
          /\ outcome.obj.maintainer \in scls[outcome.obj.id].collaborators
    /\ (/\ outcome.op \in {"UpdateForm.save", "CollaboratorsForm.save"}
        /\ outcome.status = "returned")
          => (("save" \in Range(log)) = outcome.commit)

\* a CreateForm.save called with commit=False returned
C10_Witness ==
    /\ CreateReturned
    /\ ~outcome.commit
    /\ Len(scls) = 1

\* C6: after forwards the schema is the original one with the single
\* column scls_repo.slug added (a slug field of length 150) and every
\* existing row has slug ''; after backwards the schema is the original one.
C6_MigrationRoundTrip ==
    /\ lastMig = "none" => schema = schema0
    /\ lastMig = "forwards" =>
          /\ DOMAIN schema = DOMAIN schema0
          /\ \A t \in DOMAIN schema0 \ {"scls_repo"} : schema[t] = schema0[t]
          /\ DOMAIN schema["scls_repo"] = DOMAIN schema0["scls_repo"] \cup {"slug"}
          /\ "slug" \notin DOMAIN schema0["scls_repo"]
          /\ \A c \in DOMAIN schema0["scls_repo"] :
                schema["scls_repo"][c] = schema0["scls_repo"][c]
          /\ schema["scls_repo"]["slug"].type = "SlugField"
          /\ schema["scls_repo"]["slug"].max_length = 150
          /\ Len(rows) = Len(rows0)
          /\ \A i \in 1..Len(rows) :
                /\ rows[i]["slug"] = ""
                /\ \A c \in DOMAIN rows0[i] : rows[i][c] = rows0[i][c]
    /\ lastMig = "backwards" =>
          /\ schema = schema0
          /\ \A i \in 1..Len(rows) : DOMAIN rows[i] = DOMAIN rows0[i]

\* the migration was applied and reverted on a table with rows
C6_Witness ==
    /\ lastMig = "backwards"
    /\ Len(rows) = MaxRows
    /\ "name" \in DOMAIN schema["scls_repo"]
====
